---- MODULE Spec2Model ----
(***************************************************************************)
(* The WebSocket publish/subscribe layer of the backend:                   *)
(*   backend/app/websocket/manager.py    ConnectionManager                 *)
(*   backend/app/websocket/endpoints.py  websocket_endpoint, producers     *)
(*   backend/main.py                     lifespan                          *)
(* Every coroutine runs on one asyncio event loop: the code between two    *)
(* awaits is one atomic step, and a task suspended in an await may be      *)
(* overtaken by any other task.                                            *)
(***************************************************************************)
EXTENDS Integers, Sequences, FiniteSets, TLC

\* ---------------------------------------------------------------- bounds
MaxWS == 2            \* transports (endpoint invocations) over a run
MaxStarts == 2        \* times the endpoint may start the background loops
MaxTime == 420        \* the clock stops here
MaxUpdates == 2       \* records one collaborator fetch may return
MaxBroadcasts == 2    \* broadcasts over a run
MaxPingTicks == 2     \* clock steps while pings are exchanged
MaxBeats == 2         \* heartbeat rounds over a run
MaxBeatTicks == 2     \* clock steps while heartbeats are sent
MaxCalls == 3         \* invocations of one periodic task's function

\* ------------------------------------------------------ program constants
StaleAfter == 300     \* manager.py:232
CleanupSleep == 60    \* manager.py:255
HeartbeatSleep == 30  \* manager.py:266
CACHE_TTL == 300      \* config.py:30

WS == 1..MaxWS
NoId == ""                               \* Python None for an id
ClientIds == {"a"}                       \* ids a client may put in ?client_id=
uuid4(w) == "u" \o ToString(w)           \* a fresh id, unique per call
AllIds == ClientIds \cup {uuid4(w) : w \in WS}
Topics == {"environmental", "hazards", "alerts", "timelapse_progress",
           "satellite_updates"}
ReqTopics == {"environmental", "alerts", "bogus"}   \* topics clients name
Inbound == {"ping", "get_status", "unknown", "malformed", "nonobject"}
ProducerTopics == {"environmental", "hazards", "alerts"}   \* endpoints.py:75-81
CacheKeys == {"k"}
CacheValues == {"v1", "v2"}
Ttls == {0, 60, 120}                     \* ttl arguments of set
Waits == {60, 240}                       \* seconds between two cache calls
None == "None"                           \* Python None for a cached value
NoGet == [key |-> "", value |-> None]
TaskNames == {"environmental_data_refresh", "model_health_check", "cleanup_old_data"}

VARIABLES
  active_connections,   \* dict: connection id -> transport
  connection_metadata,  \* dict: connection id -> [connected_at, last_ping, subscriptions]
  subscriptions,        \* dict: topic -> set of connection ids
  background_tasks,     \* the manager's task set: <<kind, k>> of the k-th start
  cleanup_due,          \* k -> time the k-th _periodic_cleanup wakes from its sleep
  hpc,                  \* per transport: where its endpoint coroutine stands
  hclient,              \* per transport: the client_id query parameter
  hid,                  \* per transport: the connection_id connect chose
  hsend,                \* per transport: the write its coroutine is suspended in
  now,                  \* datetime.utcnow(), in seconds
  tm_running,           \* task_manager.running
  tm_tasks,             \* task_manager.tasks (names)
  cache_task,           \* cache._cleanup_task is set
  shutdown,             \* lifespan has run its shutdown part
  producers,            \* the stream_* tasks: <<topic, k>> -> where each stands
  admits,               \* history: connect calls that stored a connection
  removes,              \* history: disconnect calls that found their id
  wsub,                 \* history, per transport: topics its subscribe calls added
  wunsub,               \* history, per transport: topics it subscribed, then unsubscribed
  bcasts,               \* history: the broadcast_to_subscribers calls, in call order
  received,             \* history, per transport: broadcasts written to it, in order
  seen,                 \* history: kinds of disconnect call made so far
  gone,                 \* history: ids a disconnect call has removed
  hin,                  \* history, per transport: the frame its endpoint took last
  hstat,                \* history, per transport: its last ping and last status
  heartbeats,           \* the _periodic_heartbeat tasks: k -> where each stands
  hbeats,               \* history: the rounds of the heartbeat loops, in order
  hrecv,                \* history, per transport: heartbeat rounds written to it
  tm_loops,             \* the _run_periodic_task coroutines: name -> where each stands
  tm_calls,             \* history: name -> invocations of the task's function
  tm_stopped,           \* history: task_manager.stop() has been called
  cache_store,          \* cache._cache: key -> [value, expires_at]
  cache_put,            \* history: key -> the last set call made for it
  cache_got             \* history: the last get call and what it returned

vars == <<active_connections, connection_metadata, subscriptions,
          background_tasks, cleanup_due, hpc, hclient, hid, hsend, now,
          tm_running, tm_tasks, cache_task, shutdown, producers, admits,
          removes, wsub, wunsub, bcasts, received, seen, gone, hin,
          hstat, heartbeats, hbeats, hrecv, tm_loops, tm_calls, tm_stopped,
          cache_store, cache_put, cache_got>>

regvars == <<active_connections, connection_metadata, subscriptions>>
taskvars == <<background_tasks, cleanup_due, producers>>
tmvars == <<tm_loops, tm_calls, tm_stopped>>
cachevars == <<cache_store, cache_put, cache_got>>
lifevars == <<tm_running, tm_tasks, cache_task, shutdown, tmvars, cachevars>>
beatvars == <<heartbeats, hbeats, hrecv>>
streamvars == <<bcasts, received>>
subhist == <<wsub, wunsub, hin, hstat>>
counters == <<admits, removes, seen, gone>>

\* ------------------------------------------------------------ dictionaries
EmptyDict == [x \in {} |-> 0]
DictSet(d, k, v) == [x \in DOMAIN d \cup {k} |-> IF x = k THEN v ELSE d[x]]
DictDel(d, k) == [x \in DOMAIN d \ {k} |-> d[x]]

\* The three dictionaries of the manager, passed through the methods below.
Reg == [ac |-> active_connections, md |-> connection_metadata,
        subs |-> subscriptions]

NoSend == [sock |-> 0, type |-> "none", to |-> NoId]
NoFrame == [m |-> "none", topic |-> "", replied |-> FALSE]
NoStat == [pinged |-> -1, reported |-> -1]

\* ------------------------------------------------------- ConnectionManager
\* connect, lines 43-51: choose the id and store transport and metadata.
connection_id_for(w, client_id) == IF client_id # NoId THEN client_id ELSE uuid4(w)

connect_store(R, w, c, t) ==
  [R EXCEPT !.ac = DictSet(R.ac, c, w),
            !.md = DictSet(R.md, c, [connected_at |-> t, last_ping |-> t,
                                     subscriptions |-> {}])]

disconnect_keeps_topics(R, c) ==
  IF c \in DOMAIN R.ac
    THEN [ac |-> DictDel(R.ac, c), md |-> DictDel(R.md, c), subs |-> R.subs]
    ELSE R

\* A disconnect that leaves the metadata of the connection behind.
disconnect_keeps_metadata(R, c) ==
  IF c \in DOMAIN R.ac
    THEN [ac |-> DictDel(R.ac, c), md |-> R.md,
          subs |-> [s \in DOMAIN R.subs |-> R.subs[s] \ {c}]]
    ELSE R

\* A disconnect without the membership test, which empties every topic.
disconnect_resets_topics(R, c) ==
  [ac |-> DictDel(R.ac, c), md |-> DictDel(R.md, c),
   subs |-> [s \in DOMAIN R.subs |-> {}]]

disconnect(R, c) ==
  IF c \in DOMAIN R.ac
    THEN [ac |-> DictDel(R.ac, c),
          md |-> DictDel(R.md, c),
          subs |-> [s \in DOMAIN R.subs |-> R.subs[s] \ {c}]]
    ELSE R

\* connect, lines 56-61: the connection_established message.
welcome(R, c) ==
  [type |-> "connection_established", connection_id |-> c,
   available_subscriptions |-> DOMAIN R.subs]

\* send_personal_message up to its await: the write it starts, if any.
send_begin(R, msg, c) ==
  IF c \in DOMAIN R.ac THEN [sock |-> R.ac[c], type |-> msg, to |-> c]
                       ELSE NoSend

\* send_personal_message after its await: a failed write disconnects the id.
send_end(R, s, ok) == IF ok THEN R ELSE disconnect(R, s.to)

\* A subscribe that makes a subscriber set for a topic it does not know.
subscribe_any_topic(R, c, topic) ==
  IF c \notin DOMAIN R.ac THEN [R |-> R, ret |-> FALSE]
  ELSE [R |-> [R EXCEPT !.subs = [s \in DOMAIN R.subs \cup {topic} |->
                                   IF s = topic
                                     THEN (IF s \in DOMAIN R.subs
                                             THEN R.subs[s] ELSE {}) \cup {c}
                                     ELSE R.subs[s]],
                        !.md = IF c \in DOMAIN R.md
                                 THEN [R.md EXCEPT ![c].subscriptions = @ \cup {topic}]
                                 ELSE R.md],
        ret |-> TRUE]

subscribe(R, c, topic) ==
  IF c \notin DOMAIN R.ac THEN [R |-> R, ret |-> FALSE]
  ELSE IF topic \notin DOMAIN R.subs THEN [R |-> R, ret |-> FALSE]
  ELSE [R |-> [R EXCEPT !.subs[topic] = @ \cup {c},
                        !.md = IF c \in DOMAIN R.md
                                 THEN [R.md EXCEPT ![c].subscriptions = @ \cup {topic}]
                                 ELSE R.md],
        ret |-> TRUE]

unsubscribe(R, c, topic) ==
  IF topic \in DOMAIN R.subs
    THEN [R |-> [R EXCEPT !.subs[topic] = @ \ {c},
                          !.md = IF c \in DOMAIN R.md
                                   THEN [R.md EXCEPT ![c].subscriptions = @ \ {topic}]
                                   ELSE R.md],
          ret |-> TRUE]
    ELSE [R |-> R, ret |-> FALSE]

handle_ping(R, c, t) ==
  [R EXCEPT !.md = IF c \in DOMAIN R.md THEN [R.md EXCEPT ![c].last_ping = t]
                                        ELSE R.md]

get_connection_count(R) == Cardinality(DOMAIN R.ac)

get_subscription_count(R, topic) ==
  IF topic \in DOMAIN R.subs THEN Cardinality(R.subs[topic]) ELSE 0

\* json.loads(message) and data.get('type'): what the first two lines of
\* the try block raise for the inbound text m.
raised(m) ==
  CASE m = "malformed" -> "JSONDecodeError"
    [] m = "nonobject" -> "AttributeError"
    [] OTHER -> "none"

\* The if/elif chain of handle_message up to its first await: the registry
\* it leaves and the message it hands to send_personal_message ("none": no
\* message is sent).
dispatch(R, c, m, topic, t) ==
  CASE m = "ping" -> [R |-> handle_ping(R, c, t), out |-> "pong"]
    [] m = "subscribe" ->
         LET r == subscribe(R, c, topic)
         IN [R |-> r.R, out |-> IF r.ret THEN "subscription_confirmed" ELSE "none"]
    [] m = "unsubscribe" ->
         LET r == unsubscribe(R, c, topic)
         IN [R |-> r.R, out |-> IF r.ret THEN "unsubscription_confirmed" ELSE "none"]
    [] m = "get_status" ->
         [R |-> R, out |-> IF c \in DOMAIN R.md THEN "status" ELSE "none"]
    [] OTHER -> [R |-> R, out |-> "error_unknown_type"]

\* A handle_message whose only except clause is the one for JSONDecodeError.
handle_message_narrow(R, c, m, topic, t) ==
  IF raised(m) = "none"
    THEN [R |-> dispatch(R, c, m, topic, t).R,
          out |-> dispatch(R, c, m, topic, t).out, escaped |-> FALSE]
  ELSE IF raised(m) = "JSONDecodeError"
    THEN [R |-> R, out |-> "error_invalid_json", escaped |-> FALSE]
  ELSE [R |-> R, out |-> "none", escaped |-> TRUE]

\* handle_message up to its first await: the try block, `except
\* json.JSONDecodeError` and `except Exception`; escaped: an exception
\* leaves handle_message.
handle_message(R, c, m, topic, t) ==
  IF raised(m) = "none"
    THEN [R |-> dispatch(R, c, m, topic, t).R,
          out |-> dispatch(R, c, m, topic, t).out, escaped |-> FALSE]
  ELSE IF raised(m) = "JSONDecodeError"
    THEN [R |-> R, out |-> "error_invalid_json", escaped |-> FALSE]
  ELSE [R |-> R, out |-> "error_internal", escaped |-> FALSE]

\* cleanup_stale_connections: disconnect every id whose last ping is too old.
stale_connections(R, t) ==
  {c \in DOMAIN R.md : t - R.md[c].last_ping > StaleAfter}

RECURSIVE disconnect_all(_, _)
disconnect_all(R, S) ==
  IF S = {} THEN R
  ELSE LET c == CHOOSE x \in S : TRUE
       IN disconnect_all(disconnect(R, c), S \ {c})

\* A sweep that drops the stale ids from the registry and the metadata only.
cleanup_stale_registry_only(R, t) ==
  [ac |-> [c \in DOMAIN R.ac \ stale_connections(R, t) |-> R.ac[c]],
   md |-> [c \in DOMAIN R.md \ stale_connections(R, t) |-> R.md[c]],
   subs |-> R.subs]

cleanup_stale_connections(R, t) == disconnect_all(R, stale_connections(R, t))

\* How many of the ids in S a disconnect would find.
Present(R, S) == Cardinality(S \cap DOMAIN R.ac)

\* What disconnect calls for the ids of S add to the history: the caller,
\* when a call takes its id out of a topic, and "absent", when a call finds
\* its id gone.
Note(R, S, caller) ==
  {x \in {caller} : \E c \in S \cap DOMAIN R.ac : \E s \in DOMAIN R.subs : c \in R.subs[s]}
    \cup {x \in {"absent"} : \E c \in S : c \notin DOMAIN R.ac}

\* The ids that are in the registry R and no longer in the registry Q.
Removed(R, Q) == DOMAIN R.ac \ DOMAIN Q.ac

\* The same for send_personal_message, which disconnects when its write fails.
NoteSend(R, s, ok) == IF ok THEN {} ELSE Note(R, {s.to}, "write")

SetReg(R) ==
  /\ active_connections' = R.ac
  /\ connection_metadata' = R.md
  /\ subscriptions' = R.subs

\* ------------------------------------------------------------------- Init
\* The manager, the endpoints and the cache when the lifespan has started up.
InitServer ==
  /\ active_connections = EmptyDict
  /\ connection_metadata = EmptyDict
  /\ subscriptions = [s \in Topics |-> {}]
  /\ background_tasks = {}
  /\ cleanup_due = EmptyDict
  /\ hpc = [w \in WS |-> "init"]
  /\ hclient = [w \in WS |-> NoId]
  /\ hid = [w \in WS |-> NoId]
  /\ hsend = [w \in WS |-> NoSend]
  /\ now = 0
  /\ cache_task = TRUE
  /\ cache_store = EmptyDict
  /\ cache_put = EmptyDict
  /\ cache_got = NoGet
  /\ shutdown = FALSE
  /\ producers = EmptyDict
  /\ admits = 0
  /\ removes = 0
  /\ wsub = [w \in WS |-> {}]
  /\ wunsub = [w \in WS |-> {}]
  /\ bcasts = <<>>
  /\ received = [w \in WS |-> <<>>]
  /\ seen = {}
  /\ gone = {}
  /\ hin = [w \in WS |-> NoFrame]
  /\ hstat = [w \in WS |-> NoStat]
  /\ heartbeats = EmptyDict
  /\ hbeats = <<>>
  /\ hrecv = [w \in WS |-> <<>>]

\* The task manager when the lifespan has started up: start(), then
\* schedule_data_refresh(), whose three tasks have not run yet.
Init ==
  /\ InitServer
  /\ tm_running = TRUE
  /\ tm_tasks = TaskNames
  /\ tm_loops = [n \in TaskNames |-> "new"]
  /\ tm_calls = [n \in TaskNames |-> 0]
  /\ tm_stopped = FALSE

\* ------------------------------------------------- background-loop start
NStarts == Cardinality({x \in background_tasks : x[1] = "cleanup"})

\* start_background_tasks: one more _periodic_cleanup and one more
\* _periodic_heartbeat task, each entering its first sleep.
start_background_tasks(B, k) == B \cup {<<"cleanup", k>>, <<"heartbeat", k>>}

Idle == [pc |-> "top", left |-> 0, rem |-> {}, bno |-> 0, send |-> NoSend]

\* start_data_streaming: three more stream_* tasks, none kept anywhere.
start_data_streaming(P, k) ==
  [p \in DOMAIN P \cup {<<s, k>> : s \in ProducerTopics} |->
     IF p \in DOMAIN P THEN P[p] ELSE Idle]

\* A _periodic_heartbeat task in its sleep.
Resting == [pc |-> "sleep", due |-> 0, rem |-> {}, hno |-> 0, send |-> NoSend]

\* endpoints.py line 42, evaluated when connect has returned.
first_connection(R) == get_connection_count(R) = 1

StartLoops(R) ==
  IF first_connection(R)
    THEN /\ NStarts < MaxStarts
         /\ background_tasks' = start_background_tasks(background_tasks, NStarts + 1)
         /\ cleanup_due' = DictSet(cleanup_due, NStarts + 1, now + CleanupSleep)
         /\ heartbeats' = DictSet(heartbeats, NStarts + 1,
                                   [Resting EXCEPT !.due = now + HeartbeatSleep])
         /\ producers' = start_data_streaming(producers, NStarts + 1)
    ELSE UNCHANGED <<taskvars, heartbeats>>

\* ------------------------------------------------------ websocket_endpoint
\* The w-th call of the endpoint; it suspends in websocket.accept().
EndpointStart(w, cid) ==
  /\ ~shutdown
  /\ hpc[w] = "init"
  /\ \A v \in WS : v < w => hpc[v] # "init"
  /\ hpc' = [hpc EXCEPT ![w] = "accept"]
  /\ hclient' = [hclient EXCEPT ![w] = cid]
  /\ UNCHANGED <<regvars, taskvars, lifevars, beatvars, streamvars, subhist, counters,
                 hid, hsend, now>>

\* accept() raises: connection_id is still None, the finally does nothing.
AcceptFail(w) ==
  /\ hpc[w] = "accept"
  /\ hpc' = [hpc EXCEPT ![w] = "done"]
  /\ hclient' = [hclient EXCEPT ![w] = NoId]
  /\ UNCHANGED <<regvars, taskvars, lifevars, beatvars, streamvars, subhist, counters,
                 hid, hsend, now>>

\* accept() returned: connect stores the connection and suspends in the
\* write of connection_established.
ConnectStore(w) ==
  /\ hpc[w] = "accept"
  /\ LET c == connection_id_for(w, hclient[w])
         R == connect_store(Reg, w, c, now)
     IN /\ SetReg(R)
        /\ hid' = [hid EXCEPT ![w] = c]
        /\ hsend' = [hsend EXCEPT ![w] = send_begin(R, "connection_established", c)]
  /\ hpc' = [hpc EXCEPT ![w] = "welcome"]
  /\ hclient' = [hclient EXCEPT ![w] = NoId]
  /\ admits' = admits + 1
  /\ UNCHANGED <<taskvars, lifevars, beatvars, streamvars, subhist, removes, seen, gone, now>>

\* The welcome write ends (ok or not), connect returns, and the endpoint
\* starts the loops if this is the only connection; then it waits for input.
WelcomeDone(w, ok) ==
  /\ hpc[w] = "welcome"
  /\ LET R == send_end(Reg, hsend[w], ok)
     IN /\ SetReg(R)
        /\ removes' = removes + (IF ok THEN 0 ELSE Present(Reg, {hsend[w].to}))
        /\ seen' = seen \cup NoteSend(Reg, hsend[w], ok)
        /\ gone' = gone \cup Removed(Reg, send_end(Reg, hsend[w], ok))
        /\ StartLoops(R)
  /\ hpc' = [hpc EXCEPT ![w] = "recv"]
  /\ hsend' = [hsend EXCEPT ![w] = NoSend]
  /\ UNCHANGED <<lifevars, hbeats, hrecv, streamvars, subhist, hclient, hid, now,
                 admits>>

\* What the transport's own calls have subscribed and unsubscribed so far.
NoteSub(w, m, topic, ret) ==
  IF m = "subscribe" /\ ret
    THEN /\ wsub' = [wsub EXCEPT ![w] = @ \cup {topic}]
         /\ wunsub' = [wunsub EXCEPT ![w] = @ \ {topic}]
  ELSE IF m = "unsubscribe" /\ ret /\ topic \in wsub[w]
    THEN /\ wsub' = [wsub EXCEPT ![w] = @ \ {topic}]
         /\ wunsub' = [wunsub EXCEPT ![w] = @ \cup {topic}]
  ELSE UNCHANGED subhist

\* A text frame arrives and handle_message runs up to the write of its reply;
\* an exception that leaves handle_message is on its way to the endpoint's
\* except clause ("raised").
ReceiveText(w, m, topic) ==
  /\ hpc[w] = "recv"
  /\ LET r == handle_message(Reg, hid[w], m, topic, now)
         s == IF r.out = "none" THEN NoSend ELSE send_begin(r.R, r.out, hid[w])
     IN /\ SetReg(r.R)
        /\ hsend' = [hsend EXCEPT ![w] = s]
        /\ hpc' = [hpc EXCEPT ![w] = IF r.escaped THEN "raised"
                                     ELSE IF s = NoSend THEN "recv" ELSE "reply"]
  /\ UNCHANGED <<taskvars, lifevars, beatvars, streamvars, counters, hclient, hid, now>>

Receive(w, m, topic) == ReceiveText(w, m, topic) /\ UNCHANGED subhist

\* The same step, with the frame recorded, and whether a reply to it was
\* handed to the transport layer.
FrameReceive(w, m, topic) ==
  /\ ReceiveText(w, m, topic)
  /\ hin' = [hin EXCEPT ![w] = [m |-> m, topic |-> topic,
                                 replied |-> hsend'[w] # NoSend]]
  /\ UNCHANGED <<wsub, wunsub, hstat>>

\* The same step, with the subscription history of the transport recorded.
TrackedReceive(w, m, topic) ==
  /\ ReceiveText(w, m, topic)
  /\ NoteSub(w, m, topic, handle_message(Reg, hid[w], m, topic, now).out
                            \in {"subscription_confirmed", "unsubscription_confirmed"})
  /\ hin' = hin
  /\ hstat' = hstat

\* send_status: the last_ping its status message carries.
status_last_ping(R, c) == R.md[c].last_ping

\* A ping or a get_status arrives; recorded: when a ping found its id
\* registered, and the last_ping a status message reported.
StampedReceive(w, m) ==
  /\ ReceiveText(w, m, "")
  /\ hstat' = [hstat EXCEPT ![w] =
       IF m = "ping" /\ hid[w] \in DOMAIN active_connections
         THEN [@ EXCEPT !.pinged = now]
       ELSE IF m = "get_status" /\ hsend'[w].type = "status"
         THEN [@ EXCEPT !.reported = status_last_ping(Reg, hid[w])]
       ELSE @]
  /\ UNCHANGED <<wsub, wunsub, hin>>

\* No frame for 30 s: the endpoint sends ping_request.
ReceiveTimeout(w) ==
  /\ hpc[w] = "recv"
  /\ LET s == send_begin(Reg, "ping_request", hid[w])
     IN /\ s # NoSend
        /\ hsend' = [hsend EXCEPT ![w] = s]
  /\ hpc' = [hpc EXCEPT ![w] = "reply"]
  /\ UNCHANGED <<regvars, taskvars, lifevars, beatvars, streamvars, subhist, counters,
                 hclient, hid, now>>

\* The write of a reply ends; the endpoint goes back to waiting for input.
ReplyDone(w, ok) ==
  /\ hpc[w] = "reply"
  /\ SetReg(send_end(Reg, hsend[w], ok))
  /\ removes' = removes + (IF ok THEN 0 ELSE Present(Reg, {hsend[w].to}))
  /\ seen' = seen \cup NoteSend(Reg, hsend[w], ok)
  /\ gone' = gone \cup Removed(Reg, send_end(Reg, hsend[w], ok))
  /\ hpc' = [hpc EXCEPT ![w] = "recv"]
  /\ hsend' = [hsend EXCEPT ![w] = NoSend]
  /\ UNCHANGED <<taskvars, lifevars, beatvars, streamvars, subhist, hclient, hid, now,
                 admits>>

\* receive_text raises (WebSocketDisconnect or another exception), or an
\* exception has left handle_message: the finally block disconnects the
\* endpoint's connection_id.
endpoint_cleanup(R, c) == IF c # NoId THEN disconnect(R, c) ELSE R

HandlerEnd(w) ==
  /\ hpc[w] \in {"recv", "raised"}
  /\ SetReg(endpoint_cleanup(Reg, hid[w]))
  /\ removes' = removes + Present(Reg, {hid[w]})
  /\ seen' = seen \cup Note(Reg, {hid[w]} \ {NoId}, "cleanup")
  /\ gone' = gone \cup Removed(Reg, endpoint_cleanup(Reg, hid[w]))
  /\ hpc' = [hpc EXCEPT ![w] = "done"]
  /\ hid' = [hid EXCEPT ![w] = NoId]
  /\ wsub' = [wsub EXCEPT ![w] = {}]
  /\ wunsub' = [wunsub EXCEPT ![w] = {}]
  /\ hin' = [hin EXCEPT ![w] = NoFrame]
  /\ hstat' = [hstat EXCEPT ![w] = NoStat]
  /\ UNCHANGED <<taskvars, lifevars, beatvars, streamvars, hclient, hsend, now, admits>>

\* ------------------------------------------------------------- stream_* loops
\* broadcast_to_subscribers up to its loop: the snapshot of the subscriber set.
\* A broadcast that walks every id of the registry.
snapshot_everyone(R, topic) == DOMAIN R.ac

snapshot(R, topic) == IF topic \in DOMAIN R.subs THEN R.subs[topic] ELSE {}

\* The transport registered under each id of S.
TransportsOf(R, S) == {R.ac[c] : c \in S \cap DOMAIN R.ac}

\* The transport's own connection is in the registry.
Registered(w) ==
  /\ hid[w] \in DOMAIN active_connections
  /\ active_connections[hid[w]] = w

\* The transport's own connection is in the registry R.
RegisteredIn(R, w) ==
  /\ hid[w] \in DOMAIN R.ac
  /\ R.ac[hid[w]] = w

\* The history record of one broadcast_to_subscribers call made on R.
BroadcastRecord(R, p, snap) ==
  [topic |-> p[1], by |-> p, snap |-> snap, count |-> Cardinality(snap),
   to |-> TransportsOf(R, snap),
   subscribed |-> {w \in WS : RegisteredIn(R, w) /\ p[1] \in wsub[w]},
   unsubscribed |-> {w \in WS : p[1] \in wunsub[w]},
   tried |-> {},
   live |-> R.subs[p[1]],
   after_error |-> "error" \in seen,
   done |-> FALSE]

\* `for update in updates: await broadcast_to_subscribers(...)` runs without
\* suspending until a write starts or the loop reaches its sleep: an id that
\* is not in the registry is passed over, a snapshot with no id left ends its
\* broadcast, and the next record's broadcast takes its snapshot at once.
\* rem: ids of the current snapshot not yet visited; left: records still to
\* broadcast; n: the current broadcast (0: none yet); B: the history so far.
RECURSIVE walk(_, _, _, _, _, _)
walk(R, p, rem, left, n, B) ==
  IF rem \cap DOMAIN R.ac # {}
    THEN [pc |-> "write", rem |-> rem, left |-> left, bno |-> n, B |-> B]
  ELSE LET B1 == IF n = 0 THEN B
                  ELSE [B EXCEPT ![n].tried = @ \cup rem, ![n].done = TRUE]
       IN IF left = 0
            THEN [pc |-> "sleep", rem |-> {}, left |-> 0, bno |-> 0, B |-> B1]
          ELSE IF Len(B1) >= MaxBroadcasts
            THEN [pc |-> "capped", rem |-> {}, left |-> left, bno |-> 0, B |-> B1]
          ELSE LET snap == snapshot(R, p[1])
               IN walk(R, p, snap, left - 1, Len(B1) + 1,
                       Append(B1, BroadcastRecord(R, p, snap)))

\* What a write adds to the frames its transport has been handed: the frame
\* goes behind those written before it.
deliver_overtaking(log, n) == <<n>> \o log

deliver(log, n) == Append(log, n)

\* The producer goes on, on the registry R, to its next suspension: the write
\* to some registered id of the snapshot, or the sleep after the last record.
Proceed(p, R, rem, left, n) ==
  LET L == walk(R, p, rem, left, n, bcasts)
  IN /\ L.pc # "capped"
     /\ IF L.pc = "sleep"
          THEN /\ producers' = [producers EXCEPT ![p] = [Idle EXCEPT !.pc = "sleep"]]
               /\ bcasts' = L.B
               /\ UNCHANGED received
          ELSE \E c \in L.rem \cap DOMAIN R.ac :
                 LET s == send_begin(R, "broadcast", c)
                 IN /\ producers' = [producers EXCEPT ![p] =
                         [pc |-> "send", left |-> L.left, rem |-> L.rem \ {c},
                          bno |-> L.bno, send |-> s]]
                    /\ bcasts' = [L.B EXCEPT ![L.bno].tried = @ \cup {c}]
                    /\ received' = [received EXCEPT ![s.sock] = deliver(@, L.bno)]

\* A loop that fetches in every iteration.
fetch_always(R, topic) == TRUE

\* The test at the top of a stream_* loop.
has_subscribers(R, topic) == get_subscription_count(R, topic) > 0

\* Top of the loop: fetch only when the topic has subscribers.
ProducerCheck(p) ==
  /\ p \in DOMAIN producers
  /\ producers[p].pc = "top"
  /\ producers' = [producers EXCEPT ![p].pc =
       IF has_subscribers(Reg, p[1]) THEN "fetch" ELSE "sleep"]
  /\ UNCHANGED <<regvars, background_tasks, cleanup_due, lifevars, beatvars, streamvars,
                 subhist, counters, hpc, hclient, hid, hsend, now>>

\* The collaborator returns n records, and the loop broadcasts them.
FetchDone(p, n) ==
  /\ p \in DOMAIN producers
  /\ producers[p].pc = "fetch"
  /\ Proceed(p, Reg, {}, n, 0)
  /\ UNCHANGED <<regvars, background_tasks, cleanup_due, lifevars, beatvars, subhist,
                 counters, hpc, hclient, hid, hsend, now>>

\* A loop whose `except Exception` clause leaves the loop.
on_error_break == "done"

\* `except Exception`: the error is logged and the loop sleeps before it
\* goes round again.
on_error == "retry"

\* The collaborator raises: logged, then the retry sleep.
FetchRaise(p) ==
  /\ p \in DOMAIN producers
  /\ producers[p].pc = "fetch"
  /\ producers' = [producers EXCEPT ![p].pc = on_error]
  /\ UNCHANGED <<regvars, background_tasks, cleanup_due, lifevars, beatvars, streamvars,
                 subhist, admits, removes, gone, hpc, hclient, hid, hsend, now>>

FetchFail(p) == FetchRaise(p) /\ UNCHANGED seen

\* The same step, with the error recorded.
NotedFetchFail(p) == FetchRaise(p) /\ seen' = seen \cup {"error"}

\* The ids the for loop of broadcast_to_subscribers still has to visit when
\* send_personal_message has returned: it returns normally whether its write
\* failed or not.
after_send_raises(rem, ok) == IF ok THEN rem ELSE {}

after_send(rem, ok) == rem

\* The write ends; a failure disconnects the id it was addressed to, and the
\* loop goes on with the ids it has not visited.
BroadcastSendDone(p, ok) ==
  /\ p \in DOMAIN producers
  /\ producers[p].pc = "send"
  /\ LET R == send_end(Reg, producers[p].send, ok)
     IN /\ SetReg(R)
        /\ gone' = gone \cup Removed(Reg, R)
        /\ Proceed(p, R, after_send(producers[p].rem, ok), producers[p].left,
                   producers[p].bno)
  /\ removes' = removes + (IF ok THEN 0 ELSE Present(Reg, {producers[p].send.to}))
  /\ seen' = seen \cup NoteSend(Reg, producers[p].send, ok)
  /\ UNCHANGED <<background_tasks, cleanup_due, lifevars, beatvars, subhist,
                 hpc, hclient, hid, hsend, now, admits>>

\* A loop that takes a cancellation for an error and goes round again.
on_cancel_ignored(pc) == "top"

\* CancelledError is raised in the await the loop is suspended in. It is
\* not an Exception: no `except Exception` on its way catches it. From the
\* fetch, from a write of a broadcast and from the sleep of the try block it
\* reaches `except asyncio.CancelledError: break`; from the retry sleep,
\* which is in an except clause, it leaves the coroutine. A task cancelled
\* before its first step never runs.
on_cancel(pc) == "done"

\* task.cancel() on a stream_* task that has not finished.
Cancel(p) ==
  /\ p \in DOMAIN producers
  /\ producers[p].pc # "done"
  /\ producers' = [producers EXCEPT ![p] = [Idle EXCEPT !.pc = on_cancel(producers[p].pc)]]
  /\ UNCHANGED <<regvars, background_tasks, cleanup_due, lifevars, beatvars, streamvars,
                 subhist, counters, hpc, hclient, hid, hsend, now>>

\* asyncio.sleep returns (the interval, or the retry delay after an error).
ProducerWake(p) ==
  /\ p \in DOMAIN producers
  /\ producers[p].pc \in {"sleep", "retry"}
  /\ producers' = [producers EXCEPT ![p].pc = "top"]
  /\ UNCHANGED <<regvars, background_tasks, cleanup_due, lifevars, beatvars, streamvars,
                 subhist, counters, hpc, hclient, hid, hsend, now>>

\* ------------------------------------------------------- _periodic_cleanup
\* The k-th cleanup task wakes from sleep(60), sweeps and sleeps again.
Sweep(k) ==
  /\ k \in DOMAIN cleanup_due
  /\ now >= cleanup_due[k]
  /\ SetReg(cleanup_stale_connections(Reg, now))
  /\ removes' = removes + Present(Reg, stale_connections(Reg, now))
  /\ seen' = seen \cup Note(Reg, stale_connections(Reg, now), "sweep")
  /\ gone' = gone \cup Removed(Reg, cleanup_stale_connections(Reg, now))
  /\ cleanup_due' = [cleanup_due EXCEPT ![k] = now + CleanupSleep]
  /\ UNCHANGED <<background_tasks, producers, lifevars, beatvars, streamvars, subhist,
                 hpc, hclient, hid, hsend, now, admits>>

\* ----------------------------------------------------- _periodic_heartbeat
\* list(self.active_connections.keys()), line 275.
heartbeat_targets(R) == DOMAIN R.ac

\* The history record of one round of the k-th heartbeat loop, made on R:
\* the ids it will visit, the active_connections value of its message, and
\* the transports registered at that moment.
BeatRecord(R, k) ==
  [by |-> k, at |-> now, snap |-> heartbeat_targets(R),
   count |-> get_connection_count(R),
   live |-> {w \in WS : RegisteredIn(R, w)},
   failed |-> FALSE, done |-> FALSE]

\* The round goes on, on the registry R, to its next suspension: the write to
\* some registered id it has not visited, or the sleep of the next round.
BeatProceed(k, R, rem, n, B) ==
  IF rem \cap DOMAIN R.ac = {}
    THEN /\ heartbeats' = [heartbeats EXCEPT ![k] =
                [Resting EXCEPT !.due = now + HeartbeatSleep]]
         /\ hbeats' = [B EXCEPT ![n].done = TRUE]
         /\ UNCHANGED hrecv
    ELSE \E c \in rem \cap DOMAIN R.ac :
           LET s == send_begin(R, "heartbeat", c)
           IN /\ heartbeats' = [heartbeats EXCEPT ![k] =
                   [pc |-> "send", due |-> 0, rem |-> rem \ {c}, hno |-> n,
                    send |-> s]]
              /\ hbeats' = B
              /\ hrecv' = [hrecv EXCEPT ![s.sock] = Append(@, n)]

\* sleep(30) returns: the loop builds its message and starts its walk.
HeartbeatFire(k) ==
  /\ k \in DOMAIN heartbeats
  /\ heartbeats[k].pc = "sleep"
  /\ now >= heartbeats[k].due
  /\ Len(hbeats) < MaxBeats
  /\ BeatProceed(k, Reg, heartbeat_targets(Reg), Len(hbeats) + 1,
                 Append(hbeats, BeatRecord(Reg, k)))
  /\ UNCHANGED <<regvars, taskvars, lifevars, streamvars, subhist, counters,
                 hpc, hclient, hid, hsend, now>>

\* A heartbeat write ends; a failure disconnects the id it was addressed to,
\* and the walk goes on.
HeartbeatSendDone(k, ok) ==
  /\ k \in DOMAIN heartbeats
  /\ heartbeats[k].pc = "send"
  /\ LET R == send_end(Reg, heartbeats[k].send, ok)
     IN /\ SetReg(R)
        /\ gone' = gone \cup Removed(Reg, R)
        /\ BeatProceed(k, R, after_send(heartbeats[k].rem, ok), heartbeats[k].hno,
                       IF ok THEN hbeats
                       ELSE [hbeats EXCEPT ![heartbeats[k].hno].failed = TRUE])
  /\ removes' = removes + (IF ok THEN 0 ELSE Present(Reg, {heartbeats[k].send.to}))
  /\ seen' = seen \cup NoteSend(Reg, heartbeats[k].send, ok)
  /\ UNCHANGED <<taskvars, lifevars, streamvars, subhist, hpc, hclient, hid,
                 hsend, now, admits>>

\* ------------------------------------------------------------------ clock
Tick(d) ==
  /\ now + d <= MaxTime
  /\ now' = now + d
  /\ UNCHANGED <<regvars, taskvars, lifevars, beatvars, streamvars, subhist, counters,
                 hpc, hclient, hid, hsend>>

\* A quiet spell longer than the staleness threshold.
Elapse == Tick(StaleAfter + 1)

\* -------------------------------------------------- BackgroundTaskManager
\* The test of `while self.running`, made by a coroutine that is about to
\* start, or that wakes from its sleep: the function is invoked, or the loop
\* is left.
loop_test(running) == IF running THEN "run" ELSE "done"

\* stop(): every task that is not done is cancelled and awaited.
on_stop(pc) == "done"

\* BackgroundTaskManager(): no task, not running.
InitTasks ==
  /\ InitServer
  /\ tm_running = FALSE
  /\ tm_tasks = {}
  /\ tm_loops = EmptyDict
  /\ tm_calls = EmptyDict
  /\ tm_stopped = FALSE

TmUnchanged ==
  UNCHANGED <<regvars, taskvars, beatvars, streamvars, subhist, counters, hpc,
              hclient, hid, hsend, now, cache_task, shutdown, cachevars>>

\* start(), with ENABLE_BACKGROUND_TASKS set.
TmStart ==
  /\ ~tm_running
  /\ ~tm_stopped
  /\ tm_running' = TRUE
  /\ UNCHANGED <<tm_tasks, tmvars>>
  /\ TmUnchanged

\* add_periodic_task(name, ...): a name that is in tasks is skipped;
\* otherwise the coroutine is created and kept under the name.
TmAdd(n) ==
  /\ ~tm_stopped
  /\ IF n \in tm_tasks
       THEN UNCHANGED <<tm_tasks, tm_loops, tm_calls>>
       ELSE /\ tm_tasks' = tm_tasks \cup {n}
            /\ tm_loops' = DictSet(tm_loops, n, "new")
            /\ tm_calls' = DictSet(tm_calls, n, 0)
  /\ UNCHANGED <<tm_running, tm_stopped>>
  /\ TmUnchanged

\* The coroutine is run for the first time, or its sleep is over.
TmLoopStep(n) ==
  /\ n \in DOMAIN tm_loops
  /\ tm_loops[n] \in {"new", "sleep", "retry"}
  /\ tm_calls[n] < MaxCalls
  /\ tm_loops' = [tm_loops EXCEPT ![n] = loop_test(tm_running)]
  /\ tm_calls' = [tm_calls EXCEPT ![n] = IF tm_running THEN @ + 1 ELSE @]
  /\ UNCHANGED <<tm_running, tm_tasks, tm_stopped>>
  /\ TmUnchanged

\* The function returns (sleep(interval)) or raises (logged,
\* sleep(min(interval, 60))).
TmFuncEnd(n, ok) ==
  /\ n \in DOMAIN tm_loops
  /\ tm_loops[n] = "run"
  /\ tm_loops' = [tm_loops EXCEPT ![n] = IF ok THEN "sleep" ELSE "retry"]
  /\ UNCHANGED <<tm_running, tm_tasks, tm_calls, tm_stopped>>
  /\ TmUnchanged

\* stop().
TmStop ==
  /\ ~tm_stopped
  /\ tm_running' = FALSE
  /\ tm_tasks' = {}
  /\ tm_loops' = [n \in DOMAIN tm_loops |-> on_stop(tm_loops[n])]
  /\ tm_stopped' = TRUE
  /\ UNCHANGED tm_calls
  /\ TmUnchanged

NextTasks ==
  \/ TmStart
  \/ \E n \in TaskNames : TmAdd(n)
  \/ \E n \in TaskNames : TmLoopStep(n)
  \/ \E n \in TaskNames, ok \in BOOLEAN : TmFuncEnd(n, ok)
  \/ TmStop

SpecTasks == InitTasks /\ [][NextTasks]_vars

\* ---------------------------------------------------------- InMemoryCache
\* `ttl = ttl or settings.CACHE_TTL`: None and 0 are both false.
ttl_or_default(given, ttl) == IF given /\ ttl # 0 THEN ttl ELSE CACHE_TTL

\* set(key, value, ttl), with ENABLE_CACHING set.
cache_set(C, key, value, given, ttl, t) ==
  DictSet(C, key, [value |-> value, expires_at |-> t + ttl_or_default(given, ttl)])

\* get(key): the value it returns and the cache it leaves.
cache_get(C, key, t) ==
  IF key \in DOMAIN C
    THEN IF C[key].expires_at > t
           THEN [value |-> C[key].value, C |-> C]
           ELSE [value |-> None, C |-> DictDel(C, key)]
    ELSE [value |-> None, C |-> C]

\* One pass of _cleanup_expired.
cleanup_expired(C, t) == [k \in {x \in DOMAIN C : C[x].expires_at > t} |-> C[k]]

CacheUnchanged ==
  UNCHANGED <<regvars, taskvars, beatvars, streamvars, subhist, counters, hpc,
              hclient, hid, hsend, tm_running, tm_tasks, tmvars, cache_task,
              shutdown>>

CacheSet(key, value, given, ttl) ==
  /\ cache_store' = cache_set(cache_store, key, value, given, ttl, now)
  /\ cache_put' = DictSet(cache_put, key,
                          [value |-> value, given |-> given, ttl |-> ttl, at |-> now])
  /\ UNCHANGED <<cache_got, now>>
  /\ CacheUnchanged

CacheGet(key) ==
  /\ cache_store' = cache_get(cache_store, key, now).C
  /\ cache_got' = [key |-> key, value |-> cache_get(cache_store, key, now).value]
  /\ UNCHANGED <<cache_put, now>>
  /\ CacheUnchanged

\* The cleanup task wakes from its sleep and removes the expired entries.
CacheCleanup ==
  /\ cache_task
  /\ cache_store' = cleanup_expired(cache_store, now)
  /\ UNCHANGED <<cache_put, cache_got, now>>
  /\ CacheUnchanged

CacheWait(d) ==
  /\ now + d <= MaxTime
  /\ now' = now + d
  /\ UNCHANGED cachevars
  /\ CacheUnchanged

NextCache ==
  \/ \E key \in CacheKeys, value \in CacheValues :
       \/ \E ttl \in Ttls : CacheSet(key, value, TRUE, ttl)
       \/ CacheSet(key, value, FALSE, 0)
  \/ \E key \in CacheKeys : CacheGet(key)
  \/ CacheCleanup
  \/ \E d \in Waits : CacheWait(d)

SpecCache == Init /\ [][NextCache]_vars

\* --------------------------------------------------------------- lifespan
\* main.py lines 48-51: task_manager.stop() and cache.stop().
Shutdown ==
  /\ ~shutdown
  /\ shutdown' = TRUE
  /\ tm_running' = FALSE
  /\ tm_tasks' = {}
  /\ tm_loops' = [n \in DOMAIN tm_loops |-> on_stop(tm_loops[n])]
  /\ tm_stopped' = TRUE
  /\ cache_task' = FALSE
  /\ UNCHANGED <<tm_calls, cachevars>>
  /\ UNCHANGED <<regvars, taskvars, beatvars, streamvars, subhist, counters,
                 hpc, hclient, hid, hsend, now>>

\* ---------------------------------------------------------- specification
Handlers ==
  \E w \in WS :
    \/ \E cid \in ClientIds \cup {NoId} : EndpointStart(w, cid)
    \/ AcceptFail(w)
    \/ ConnectStore(w)
    \/ \E ok \in BOOLEAN : WelcomeDone(w, ok)
    \/ \E m \in Inbound : Receive(w, m, "")
    \/ \E m \in {"subscribe", "unsubscribe"}, topic \in ReqTopics : Receive(w, m, topic)
    \/ ReceiveTimeout(w)
    \/ \E ok \in BOOLEAN : ReplyDone(w, ok)
    \/ HandlerEnd(w)

Next ==
  \/ Handlers
  \/ \E k \in 1..MaxStarts : Sweep(k)
  \/ Elapse
  \/ Shutdown

Spec == Init /\ [][Next]_vars

\* The environmental stream with the endpoint's subscribe and unsubscribe.
StreamTopic == "environmental"

StreamHandlers ==
  \E w \in WS :
    \/ \E cid \in ClientIds \cup {NoId} : EndpointStart(w, cid)
    \/ ConnectStore(w)
    \/ WelcomeDone(w, TRUE)
    \/ \E m \in {"subscribe", "unsubscribe"} : TrackedReceive(w, m, StreamTopic)
    \/ ReplyDone(w, TRUE)
    \/ HandlerEnd(w)

\* The loop the first start created; the loops of later starts stay in
\* their first scheduling slot.
Streams ==
  \E k \in {1} :
    LET p == <<StreamTopic, k>>
    IN \/ ProducerCheck(p)
       \/ \E n \in 0..MaxUpdates : FetchDone(p, n)
       \/ FetchFail(p)
       \/ \E ok \in BOOLEAN : BroadcastSendDone(p, ok)
       \/ ProducerWake(p)

NextStream == StreamHandlers \/ Streams

SpecStream == Init /\ [][NextStream]_vars

\* The environmental stream with its errors recorded, for clients that
\* connect and subscribe; the event loop runs: a sleep that is over returns.
RetryHandlers ==
  \E w \in WS :
    \/ \E cid \in ClientIds \cup {NoId} : EndpointStart(w, cid)
    \/ ConnectStore(w)
    \/ WelcomeDone(w, TRUE)
    \/ TrackedReceive(w, "subscribe", StreamTopic)
    \/ ReplyDone(w, TRUE)

RetryStreams ==
  \E k \in {1} :
    LET p == <<StreamTopic, k>>
    IN \/ ProducerCheck(p)
       \/ \E n \in 0..MaxUpdates : FetchDone(p, n)
       \/ NotedFetchFail(p)
       \/ \E ok \in BOOLEAN : BroadcastSendDone(p, ok)
       \/ ProducerWake(p)

NextRetry == RetryHandlers \/ RetryStreams

SpecRetry ==
  Init /\ [][NextRetry]_vars /\ WF_vars(ProducerWake(<<StreamTopic, 1>>))

\* The same stream, with a cancellation of its task at any moment.
NextCancel ==
  \/ RetryHandlers
  \/ \E k \in {1} :
       LET p == <<StreamTopic, k>>
       IN \/ ProducerCheck(p)
          \/ \E n \in 0..MaxUpdates : FetchDone(p, n)
          \/ FetchFail(p)
          \/ \E ok \in BOOLEAN : BroadcastSendDone(p, ok)
          \/ ProducerWake(p)
          \/ Cancel(p)

SpecCancel == Init /\ [][NextCancel]_vars

\* The message protocol of one endpoint: every kind of frame, with the
\* frames recorded and every write free to fail.
ProtocolTopics == {"environmental", "bogus"}

NextProtocol ==
  \E w \in WS :
    \/ \E cid \in ClientIds \cup {NoId} : EndpointStart(w, cid)
    \/ ConnectStore(w)
    \/ \E ok \in BOOLEAN : WelcomeDone(w, ok)
    \/ \E m \in Inbound : FrameReceive(w, m, "")
    \/ \E m \in {"subscribe", "unsubscribe"}, topic \in ProtocolTopics :
         FrameReceive(w, m, topic)
    \/ \E ok \in BOOLEAN : ReplyDone(w, ok)
    \/ HandlerEnd(w)

SpecProtocol == Init /\ [][NextProtocol]_vars

\* Pings and status requests with the clock running.
TickPing == now < MaxPingTicks * CleanupSleep /\ Tick(CleanupSleep)

NextPing ==
  \/ \E w \in WS :
       \/ \E cid \in ClientIds \cup {NoId} : EndpointStart(w, cid)
       \/ ConnectStore(w)
       \/ \E ok \in BOOLEAN : WelcomeDone(w, ok)
       \/ \E m \in {"ping", "get_status"} : StampedReceive(w, m)
       \/ \E ok \in BOOLEAN : ReplyDone(w, ok)
       \/ HandlerEnd(w)
  \/ TickPing

SpecPing == Init /\ [][NextPing]_vars

\* The heartbeat with the clock: a timer fires when it is due, and a
\* transport write takes no time on the scale of the heartbeat.
BeatOnTime ==
  /\ \A k \in DOMAIN heartbeats :
       heartbeats[k].pc = "sleep" /\ heartbeats[k].due >= now + HeartbeatSleep
  /\ \A w \in WS : hpc[w] \notin {"welcome", "reply"}

TickBeat ==
  /\ BeatOnTime
  /\ now < MaxBeatTicks * HeartbeatSleep
  /\ Tick(HeartbeatSleep)

NextBeat ==
  \/ \E w \in WS :
       \/ \E cid \in ClientIds \cup {NoId} : EndpointStart(w, cid)
       \/ ConnectStore(w)
       \/ \E ok \in BOOLEAN : WelcomeDone(w, ok)
       \/ Receive(w, "subscribe", StreamTopic)
       \/ \E ok \in BOOLEAN : ReplyDone(w, ok)
       \/ HandlerEnd(w)
  \/ \E k \in 1..MaxStarts :
       \/ HeartbeatFire(k)
       \/ \E ok \in BOOLEAN : HeartbeatSendDone(k, ok)
  \/ TickBeat

SpecBeat == Init /\ [][NextBeat]_vars

\* The sweep with the clock: a timer fires when it is due, a transport write
\* takes no time on the scale of the sweep, and the clock moves in steps of
\* the sweep's sleep.
OnTime(d) ==
  /\ \A k \in DOMAIN cleanup_due : cleanup_due[k] >= now + d
  /\ \A w \in WS : hpc[w] \notin {"welcome", "reply"}

TickOnTime == OnTime(CleanupSleep) /\ Tick(CleanupSleep)

SweepHandlers ==
  \E w \in WS :
    \/ \E cid \in ClientIds \cup {NoId} : EndpointStart(w, cid)
    \/ ConnectStore(w)
    \/ \E ok \in BOOLEAN : WelcomeDone(w, ok)
    \/ Receive(w, "ping", "")
    \/ \E ok \in BOOLEAN : ReplyDone(w, ok)
    \/ HandlerEnd(w)

NextSweep ==
  \/ SweepHandlers
  \/ \E k \in 1..MaxStarts : Sweep(k)
  \/ TickOnTime

SpecSweep == Init /\ [][NextSweep]_vars

\* ================================================================ claims
RangeOf(q) == {q[i] : i \in 1..Len(q)}
Times(q, n) == Cardinality({i \in 1..Len(q) : q[i] = n})

\* C1: every connection id in any topic's subscriber set is a key of
\* active_connections, in every reachable state.
C1_SubscribersAreLive ==
  \A s \in DOMAIN subscriptions : subscriptions[s] \subseteq DOMAIN active_connections

\* C1 witness: a subscriber is registered after some connection was removed.
C1_Witness ==
  /\ removes > 0
  /\ \E s \in DOMAIN subscriptions : subscriptions[s] # {}

\* C2: for every live id c and topic s, s is in the metadata subscriptions of
\* c exactly when c is in the subscriber set of s.
C2_Claim ==
  \A c \in DOMAIN active_connections : \A s \in DOMAIN subscriptions :
    (c \in DOMAIN connection_metadata /\ s \in connection_metadata[c].subscriptions)
      <=> c \in subscriptions[s]

\* C3: a connect whose client-supplied id is already live is rejected: the
\* endpoint gets no connection id and the registry, the metadata and the
\* subscriber sets stay as they were.
C3_Claim ==
  [][\A w \in WS :
       (/\ hpc[w] = "accept"
        /\ hpc'[w] # "accept"
        /\ hclient[w] # NoId
        /\ hclient[w] \in DOMAIN active_connections)
       => /\ hid'[w] = NoId
          /\ active_connections' = active_connections
          /\ connection_metadata' = connection_metadata
          /\ subscriptions' = subscriptions]_vars

\* C4: when the endpoint of one transport ends and runs its cleanup, every
\* other registered transport stays registered with the same metadata and
\* the same topic memberships.
C4_Claim ==
  [][\A w \in WS :
       (hpc[w] = "recv" /\ hpc'[w] = "done")
       => \A v \in WS \ {w} :
            Registered(v)
            => /\ hid[v] \in DOMAIN active_connections'
               /\ active_connections'[hid[v]] = v
               /\ hid[v] \in DOMAIN connection_metadata'
               /\ connection_metadata'[hid[v]] = connection_metadata[hid[v]]
               /\ \A s \in DOMAIN subscriptions :
                    (hid[v] \in subscriptions'[s]) <=> (hid[v] \in subscriptions[s])]_vars

\* C5: at most one _periodic_cleanup task and at most one _periodic_heartbeat
\* task exist, whatever connections come and go.
C5_Claim ==
  /\ Cardinality({x \in background_tasks : x[1] = "cleanup"}) <= 1
  /\ Cardinality({x \in background_tasks : x[1] = "heartbeat"}) <= 1

\* C6: once the lifespan has shut down, the sweep loop, the heartbeat loop
\* and the producer loops are gone (cancelled and awaited), so none of them
\* can attempt a delivery.
C6_Claim == shutdown => (background_tasks = {} /\ DOMAIN producers = {})

\* C7: a transport that subscribed to a topic and then unsubscribed gets no
\* broadcast sent after the unsubscribe, and a transport gets every broadcast
\* sent while it was subscribed, once each and in the order of sending.
C7_Claim ==
  /\ \A n \in 1..Len(bcasts) : \A w \in bcasts[n].unsubscribed :
       n \notin RangeOf(received[w])
  /\ \A n \in 1..Len(bcasts) : \A w \in bcasts[n].subscribed :
       (bcasts[n].done /\ Registered(w)) => Times(received[w], n) = 1
  /\ \A w \in WS : \A i, j \in 1..Len(received[w]) :
       (i < j /\ bcasts[received[w][i]].topic = bcasts[received[w][j]].topic)
         => received[w][i] < received[w][j]

\* C8: two broadcasts of one producer loop reach a transport in the order
\* the loop made them, and a transport registered under a subscribed id at
\* both broadcasts and ever since has both.
C8_ProducerFifo ==
  /\ \A w \in WS : \A i, j \in 1..Len(received[w]) :
       (i < j /\ bcasts[received[w][i]].by = bcasts[received[w][j]].by)
         => received[w][i] < received[w][j]
  /\ \A m, n \in 1..Len(bcasts) :
       (m < n /\ bcasts[m].by = bcasts[n].by /\ bcasts[n].done)
         => \A w \in bcasts[m].to \cap bcasts[n].to :
              Registered(w) => (m \in RangeOf(received[w]) /\ n \in RangeOf(received[w]))

\* C8 witness: two transports have each been handed the two broadcasts of
\* one loop.
C8_Witness ==
  \E v, w \in WS :
    /\ v # w
    /\ Len(received[v]) = 2
    /\ Len(received[w]) = 2
    /\ Len(bcasts) = 2
    /\ bcasts[1].by = bcasts[2].by

\* C9: no connection is in active_connections with a last ping older than
\* the staleness threshold plus one sweep interval.
C9_Claim ==
  \A c \in DOMAIN active_connections :
    c \in DOMAIN connection_metadata
      => now - connection_metadata[c].last_ping <= StaleAfter + CleanupSleep

\* C10: get_connection_count() is the number of admits minus the number of
\* disconnects that found their id.
C10_Claim == get_connection_count(Reg) = admits - removes

\* C11: when disconnect(id) has returned, called by the endpoint's cleanup,
\* by a failed write or by the stale sweep, id is in no topic's subscriber
\* set, and get_subscription_count counts live ids only.
C11_Claim ==
  [][/\ \A c \in AllIds :
          (c \in DOMAIN active_connections /\ c \notin DOMAIN active_connections')
            => \A s \in DOMAIN subscriptions' : c \notin subscriptions'[s]
     /\ \A w \in WS :
          (hpc[w] = "recv" /\ hpc'[w] = "done" /\ hid[w] # NoId)
            => \A s \in DOMAIN subscriptions' : hid[w] \notin subscriptions'[s]
     /\ (DOMAIN cleanup_due' = DOMAIN cleanup_due /\ cleanup_due' # cleanup_due)
          => \A c \in stale_connections(Reg, now) :
               \A s \in DOMAIN subscriptions' : c \notin subscriptions'[s]
     /\ \A s \in DOMAIN subscriptions' :
          get_subscription_count([ac |-> active_connections',
                                  md |-> connection_metadata',
                                  subs |-> subscriptions'], s)
            = Cardinality(subscriptions'[s] \cap DOMAIN active_connections')]_vars

\* C11 witness: the sweep has taken a subscribed id out of its topics, and so
\* has an endpoint's cleanup.
C11_Witness == {"sweep", "cleanup"} \subseteq seen

\* C12: disconnect of an id that is not in active_connections changes
\* nothing, two disconnects in a row leave what one leaves, and an endpoint
\* whose cleanup finds its id gone leaves the three dictionaries as they were.
C12_Claim ==
  /\ [](\A c \in AllIds :
          /\ c \notin DOMAIN active_connections => disconnect(Reg, c) = Reg
          /\ disconnect(disconnect(Reg, c), c) = disconnect(Reg, c))
  /\ [][\A w \in WS :
          (hpc[w] = "recv" /\ hpc'[w] = "done"
             /\ hid[w] \notin DOMAIN active_connections)
            => regvars' = regvars]_vars

\* C12 witness: a disconnect has found its id gone while another connection
\* was subscribed to a topic.
C12_Witness ==
  /\ "absent" \in seen
  /\ \E s \in DOMAIN subscriptions : subscriptions[s] # {}

\* C13: an id that a disconnect has removed is never in active_connections
\* again; while a handler's id is removed, none of its calls starts a write,
\* and no removed id gets metadata or a topic membership back.
C13_Claim ==
  /\ [](gone \cap DOMAIN active_connections = {})
  /\ [][/\ \A w \in WS :
             (hpc[w] = "recv" /\ hid[w] \in gone) => hpc'[w] # "reply"
        /\ \A c \in gone :
             /\ c \notin DOMAIN connection_metadata'
             /\ \A s \in DOMAIN subscriptions' : c \notin subscriptions'[s]]_vars

C16_Claim ==
  \A w \in WS : \A i \in 1..Len(received[w]) :
    w \in bcasts[received[w][i]].subscribed

\* The replies of handle_message that carry the type 'error'.
ErrorReplies == {"error_unknown_type", "error_invalid_json", "error_internal"}

\* The transport w has just taken a frame (one that differs from its last).
Took(w) == hin'[w] # hin[w] /\ hin'[w] # NoFrame

\* C17: a subscribe frame that names a topic outside the five is answered
\* with an error message, written to the transport that sent it, and the
\* endpoint stays in its receive loop.
C17_Claim ==
  [][\A w \in WS :
       (/\ Took(w)
        /\ hin'[w].m = "subscribe"
        /\ hin'[w].topic \notin Topics
        /\ Registered(w))
       => /\ hpc'[w] = "reply"
          /\ hsend'[w].type \in ErrorReplies
          /\ hsend'[w].sock = w]_vars

\* C18: subscribe with a topic outside the five returns false and changes
\* nothing; a subscribe frame that names such a topic leaves the three
\* dictionaries as they were and starts no write; the topic keys are the
\* same five names in every state.
C18_Claim ==
  /\ [](/\ DOMAIN subscriptions = Topics
        /\ \A c \in AllIds : \A topic \in ProtocolTopics \ Topics :
             subscribe(Reg, c, topic) = [R |-> Reg, ret |-> FALSE])
  /\ [][\A w \in WS :
          (Took(w) /\ hin'[w].m = "subscribe" /\ hin'[w].topic \notin Topics)
            => /\ regvars' = regvars
               /\ ~hin'[w].replied
               /\ hsend'[w] = NoSend
               /\ hpc'[w] = "recv"]_vars

\* C18 witness: a registered transport that is subscribed to a topic has
\* sent a subscribe frame for a topic outside the five.
C18_Witness ==
  \E w \in WS :
    /\ Registered(w)
    /\ hin[w].m = "subscribe"
    /\ hin[w].topic \notin Topics
    /\ \E s \in DOMAIN subscriptions : hid[w] \in subscriptions[s]

\* The frames handle_message cannot parse or does not recognise.
BadFrames == {"malformed", "unknown"}

\* C19: a frame that is not JSON, or whose type is not recognised, changes
\* none of the three dictionaries; when the connection id of the sender is
\* registered it is answered with an error message written to the sender's
\* own transport; the endpoint stays in its receive loop, and a ping or a
\* subscribe that follows from the same connection is processed as usual.
C19_Claim ==
  [][\A w \in WS :
       /\ (Took(w) /\ hin'[w].m \in BadFrames)
            => /\ regvars' = regvars
               /\ hpc'[w] \in {"reply", "recv"}
               /\ hid[w] \in DOMAIN active_connections
                    => /\ hpc'[w] = "reply"
                       /\ hsend'[w].type \in ErrorReplies
                       /\ hsend'[w].sock = w
       /\ (hin[w].m \in BadFrames /\ hpc[w] = "reply" /\ hpc'[w] # "reply")
            => hpc'[w] = "recv"
       /\ (/\ Took(w) /\ hin[w].m \in BadFrames
           /\ hid[w] \in DOMAIN active_connections)
            => /\ hin'[w].m = "ping"
                    => /\ connection_metadata'[hid[w]].last_ping = now
                       /\ hsend'[w].type = "pong"
                       /\ hsend'[w].sock = w
               /\ (hin'[w].m = "subscribe" /\ hin'[w].topic \in Topics)
                    => /\ hid[w] \in subscriptions'[hin'[w].topic]
                       /\ hsend'[w].type = "subscription_confirmed"
                       /\ hsend'[w].sock = w]_vars

\* C20: no exception leaves handle_message: for every inbound text the
\* endpoint is in its receive loop or in the write of a reply afterwards,
\* never in its exception path; a text that makes the try block raise is
\* answered with an error message when the connection id is registered
\* (the generic one for JSON that is not an object); and when the write of
\* a reply ends, failed or not, the endpoint is back in its receive loop.
C20_Claim ==
  /\ [](/\ \A w \in WS : hpc[w] # "raised"
        /\ \A c \in AllIds : \A m \in Inbound \cup {"subscribe", "unsubscribe"} :
             \A topic \in ProtocolTopics \cup {""} :
               ~handle_message(Reg, c, m, topic, now).escaped)
  /\ [][\A w \in WS :
          /\ (Took(w) /\ raised(hin'[w].m) # "none"
                /\ hid[w] \in DOMAIN active_connections)
               => /\ hpc'[w] = "reply"
                  /\ hsend'[w].type \in ErrorReplies
                  /\ hsend'[w].to = hid[w]
                  /\ hin'[w].m = "nonobject" => hsend'[w].type = "error_internal"
          /\ (hpc[w] = "reply" /\ hpc'[w] # "reply") => hpc'[w] = "recv"]_vars

\* C20 witness: a connection sent JSON that is not an object, the write of
\* the reply failed and removed it, and its endpoint is in its receive loop.
C20_Witness ==
  \E w \in WS :
    /\ hid[w] = uuid4(w)
    /\ hin[w].m = "nonobject"
    /\ hin[w].replied
    /\ hpc[w] = "recv"
    /\ hid[w] \notin DOMAIN active_connections

\* C21: a ping from a transport whose connection id is registered sets that
\* connection's last_ping to the current time and starts a pong to that
\* transport, and the last_ping of no other registered connection changes;
\* a get_status after such a ping is answered with a status message whose
\* last_ping is not earlier than the time of the ping.
C21_Claim ==
  [][\A w \in WS :
       /\ (StampedReceive(w, "ping") /\ hid[w] \in DOMAIN active_connections)
            => /\ connection_metadata'[hid[w]].last_ping = now
               /\ hsend'[w].type = "pong"
               /\ hsend'[w].sock = w
               /\ \A v \in WS \ {w} :
                    Registered(v) =>
                      connection_metadata'[hid[v]].last_ping
                        = connection_metadata[hid[v]].last_ping
       /\ (/\ StampedReceive(w, "get_status")
           /\ hid[w] \in DOMAIN active_connections
           /\ hstat[w].pinged >= 0)
            => /\ hsend'[w].type = "status"
               /\ hstat'[w].reported >= hstat[w].pinged]_vars

\* C22: connect stores the transport under the id it assigned (the client's
\* id, or a generated one when the client gave none) with connected_at and
\* last_ping equal to the current time and no subscription, starts the write
\* of connection_established, which carries that id and the five topic
\* names, to that transport, and the registry has one entry more than before.
C22_Claim ==
  [][\A w \in WS :
       ConnectStore(w) =>
         LET c == hid'[w]
         IN /\ c = connection_id_for(w, hclient[w])
            /\ hclient[w] = NoId => c = uuid4(w)
            /\ c \in DOMAIN active_connections'
            /\ active_connections'[c] = w
            /\ connection_metadata'[c]
                 = [connected_at |-> now, last_ping |-> now, subscriptions |-> {}]
            /\ hsend'[w] = [sock |-> w, type |-> "connection_established", to |-> c]
            /\ welcome(Reg', c).connection_id = c
            /\ welcome(Reg', c).available_subscriptions = Topics
            /\ get_connection_count(Reg') = get_connection_count(Reg) + 1]_vars

\* C23: a producer enters its fetch only from the top of its loop and only
\* when its topic has a subscriber at that moment; with no subscriber the
\* iteration goes to its sleep with no fetch and no broadcast; and every
\* broadcast is made by a producer that is past a fetch.
C23_Claim ==
  [][/\ \A p \in DOMAIN producers :
          /\ (producers[p].pc # "fetch" /\ producers'[p].pc = "fetch")
               => /\ producers[p].pc = "top"
                  /\ subscriptions[p[1]] # {}
          /\ (producers[p].pc = "top" /\ producers'[p].pc # "top"
                /\ subscriptions[p[1]] = {})
               => /\ producers'[p].pc = "sleep"
                  /\ bcasts' = bcasts
                  /\ received' = received
     /\ bcasts' # bcasts
          => \E p \in DOMAIN producers : producers[p].pc \in {"fetch", "send"}]_vars

\* C23 witness: the only connection there has been never subscribed, and
\* the producer has passed its check and is in its sleep.
C23_Witness ==
  /\ hpc[1] = "recv"
  /\ \A w \in WS \ {1} : hpc[w] = "init"
  /\ wsub[1] = {} /\ wunsub[1] = {}
  /\ <<StreamTopic, 1>> \in DOMAIN producers
  /\ producers[<<StreamTopic, 1>>].pc = "sleep"
  /\ bcasts = <<>>

\* C24: a failed fetch never ends the producer loop: the loop is then in
\* its retry sleep, with the registry untouched, the sleep leads to the top
\* of a further iteration, and no producer is ever in a final state.
C24_Claim ==
  /\ [](\A p \in DOMAIN producers :
          producers[p].pc \in {"top", "fetch", "send", "sleep", "retry"})
  /\ [][\A p \in DOMAIN producers :
          /\ NotedFetchFail(p) => producers'[p].pc = "retry" /\ regvars' = regvars
          /\ (producers[p].pc = "retry" /\ producers'[p] # producers[p])
               => producers'[p].pc = "top"]_vars
  /\ ((<<StreamTopic, 1>> \in DOMAIN producers
         /\ producers[<<StreamTopic, 1>>].pc = "retry")
        ~> (<<StreamTopic, 1>> \in DOMAIN producers
             /\ producers[<<StreamTopic, 1>>].pc = "top"))

\* C24 witness: a broadcast made after a failed fetch has been written to
\* a subscriber.
C24_Witness ==
  \E n \in 1..Len(bcasts) :
    /\ bcasts[n].after_error
    /\ bcasts[n].done
    /\ \E w \in WS : n \in RangeOf(received[w])

\* The awaits a stream_* loop can be suspended in.
SuspensionPoints == {"fetch", "send", "sleep", "retry"}

\* C25: a cancellation delivered to a producer at any of its suspension
\* points ends the loop, with no change to the registry and no broadcast;
\* a loop that has ended takes no further step; and every step that makes
\* a broadcast or hands a frame to a transport is a step of a loop that has
\* not ended.
C25_Claim ==
  [][/\ \A p \in DOMAIN producers :
          /\ (Cancel(p) /\ producers[p].pc \in SuspensionPoints)
               => /\ producers'[p].pc = "done"
                  /\ regvars' = regvars
                  /\ bcasts' = bcasts
                  /\ received' = received
          /\ producers[p].pc = "done" => producers'[p] = producers[p]
     /\ (bcasts' # bcasts \/ received' # received)
          => \E p \in DOMAIN producers :
               /\ producers[p].pc \in {"fetch", "send"}
               /\ producers'[p] # producers[p]
               /\ producers'[p].pc # "done"]_vars

\* C25 witness: the loop was cancelled in the write of a broadcast that
\* had another subscriber still to visit, and has ended.
C25_Witness ==
  /\ <<StreamTopic, 1>> \in DOMAIN producers
  /\ producers[<<StreamTopic, 1>>].pc = "done"
  /\ \E n \in 1..Len(bcasts) :
       /\ ~bcasts[n].done
       /\ bcasts[n].tried # bcasts[n].snap

\* C26: every round of a heartbeat loop visits the ids registered when it
\* fires, whatever their subscriptions, and its message carries their
\* number; a transport is handed a round's frame at most once, and exactly
\* once when the round is over and the transport has stayed registered, a
\* failed write to another connection notwithstanding; and the frames a
\* transport is handed are a heartbeat interval apart.
C26_Claim ==
  /\ \A n \in 1..Len(hbeats) :
       /\ hbeats[n].count = Cardinality(hbeats[n].live)
       /\ \A w \in WS :
            /\ Times(hrecv[w], n) <= 1
            /\ (hbeats[n].done /\ w \in hbeats[n].live /\ Registered(w))
                 => Times(hrecv[w], n) = 1
  /\ \A w \in WS : \A i, j \in 1..Len(hrecv[w]) :
       i < j => hbeats[hrecv[w][j]].at - hbeats[hrecv[w][i]].at >= HeartbeatSleep

\* C27: whenever an endpoint is in its receive loop with its connection
\* registered, the loops have been started: a cleanup task, a heartbeat
\* task and the three stream tasks exist.
C27_Claim ==
  (\E w \in WS : hpc[w] \in {"recv", "reply"} /\ Registered(w))
    => /\ \E k \in 1..MaxStarts :
            /\ {<<"cleanup", k>>, <<"heartbeat", k>>} \subseteq background_tasks
            /\ k \in DOMAIN cleanup_due
            /\ k \in DOMAIN heartbeats
            /\ \A s \in ProducerTopics : <<s, k>> \in DOMAIN producers

\* C28: connection_metadata and active_connections have the same keys in
\* every reachable state, and disconnect keeps them so for every id.
C28_Claim ==
  /\ DOMAIN connection_metadata = DOMAIN active_connections
  /\ \A c \in AllIds : DOMAIN disconnect(Reg, c).md = DOMAIN disconnect(Reg, c).ac

\* C28 witness: a failed write has removed a connection that was in a
\* topic, and a connection stored after the clock moved is registered.
C28_Witness ==
  /\ "write" \in seen
  /\ gone # {}
  /\ DOMAIN active_connections # {}
  /\ \E c \in DOMAIN connection_metadata :
       connection_metadata[c].connected_at > 0

\* C29: a periodic task that add_periodic_task accepted keeps invoking its
\* function until stop() is called, whether it was added before start() or
\* after it: its loop is not over while stop() has not been called; a
\* function that raises is followed by the retry sleep and a further
\* invocation; and a second add under a name that is in tasks changes nothing.
C29_Claim ==
  /\ [](\A n \in DOMAIN tm_loops : tm_loops[n] = "done" => tm_stopped)
  /\ [][\A n \in TaskNames :
          /\ (TmAdd(n) /\ n \in tm_tasks) => UNCHANGED <<tm_tasks, tm_loops, tm_calls>>
          /\ (n \in DOMAIN tm_loops /\ n \in DOMAIN tm_loops')
               => /\ tm_calls'[n] \in {tm_calls[n], tm_calls[n] + 1}
                  /\ (tm_calls'[n] = tm_calls[n] + 1)
                       => (tm_loops[n] \in {"new", "sleep", "retry"}
                            /\ tm_loops'[n] = "run")
                  /\ (tm_loops[n] = "run" /\ tm_loops'[n] # "run" /\ ~tm_stopped')
                       => tm_loops'[n] \in {"sleep", "retry"}]_vars

\* C30: a get of a key whose last set gave a ttl returns the value of that
\* set while fewer than ttl seconds have passed since it, and afterwards
\* returns None and leaves no entry for the key, for every ttl and for 0 as
\* well; a get of a key whose last set gave no ttl does the same with the
\* default TTL.
C30_Claim ==
  [][\A key \in CacheKeys :
       (CacheGet(key) /\ key \in DOMAIN cache_put)
         => LET s == cache_put[key]
                life == IF s.given THEN s.ttl ELSE CACHE_TTL
            IN IF now - s.at < life
                 THEN cache_got'.value = s.value
                 ELSE /\ cache_got'.value = None
                      /\ key \notin DOMAIN cache_store']_vars

====
